---- MODULE Spec2Model ----
(***************************************************************************)
(* Model of rust/src/api/simple.rs: the flutter_rust_bridge API of         *)
(* cozo_dart.  The file wraps cozo::DbInstance in the opaque type CozoDb   *)
(* and forwards every operation to the engine.  The wrapper functions are  *)
(* translated from the source; the engine (crate cozo) and the drop of an  *)
(* opaque handle are not part of simple.rs and are modelled at their       *)
(* interface (section "Engine").                                           *)
(***************************************************************************)
EXTENDS Integers, Sequences, FiniteSets, TLC

\* ---------------------------------------------------------------- bounds
MaxHandles == 2

Handles == 1..MaxHandles
\* The rows a relation may hold.
Rows == {1}
\* Paths that can hold a backup artifact, and one that cannot be opened.
Paths == {1}
BadPath == 0
PathInputs == Paths \cup {BadPath}
Names == {"A", "B"}

\* ------------------------------------------------- relation stores (engine)
\* A relation is <<>> when it does not exist and <<S>> when it exists with
\* the row set S.
RelVals == {<<>>} \cup {<<S>> : S \in SUBSET Rows}
Store == [Names -> RelVals]
EmptyStore == [n \in Names |-> <<>>]
NamesOf(s) == {n \in Names : s[n] # <<>>}

\* ------------------------------------------------------- text payloads
\* A text is a tuple whose first element says what the text parses to.
JStr(s) == <<"str", s>>
JNum(s) == <<"num", s>>
JArr(elems) == <<"arr", elems>>
Malformed == <<"malformed">>
RelSetText(s) == <<"relset", s>>
OkText(v) == <<"ok", v>>
ErrText(m) == <<"error", m>>

\* ------------------------------------------------------- anyhow::Result
Ok(v) == [ok |-> TRUE, msg |-> "", value |-> v]
Err(m) == [ok |-> FALSE, msg |-> m, value |-> <<>>]
Unit == <<>>

\* ----------------------------------------------------------------- inputs
EngineKinds == {"mem", "bogus"}
OptionTexts == {"{}", "not-json"}
RelationsJsonInputs ==
    { JArr(<<>>), JArr(<<JStr("A")>>), JArr(<<JStr("B")>>),
      JArr(<<JStr("A"), JStr("B")>>), JStr("not-an-array"),
      JArr(<<JStr("A"), JNum("1")>>), Malformed }
Scripts ==
    {<<"query", n>> : n \in Names} \cup {<<"create", n>> : n \in Names}
      \cup {<<"rm", n>> : n \in Names}
      \cup {<<"put", n, r>> : n \in Names, r \in Rows} \cup {<<"garbage">>}
\* Payloads of one relation, a malformed text and an engine error text.
DataJsonInputs ==
    {RelSetText([EmptyStore EXCEPT ![n] = v]) : n \in Names, v \in RelVals \ {<<>>}}
      \cup {Malformed, ErrText("missing")}
\* Scripts with well-formed parameters, and one call with malformed ones.
RunInputs ==
    {<<s, "{}", i>> : s \in Scripts, i \in BOOLEAN}
      \cup {<<(<<"query", "A">>), "not-json", FALSE>>}
\* Every names payload against a usable path, and one against an unusable one.
ImportFromBackupInputs ==
    {<<p, t>> : p \in Paths, t \in RelationsJsonInputs}
      \cup {<<BadPath, JArr(<<JStr("A")>>)>>}
Modes == {"replace", "merge"}

\* ------------------------------------------------------------------ state
VARIABLES
    state,      \* lifecycle of each CozoDb handle: "Unborn", "Open", "Closed"
    inner,      \* CozoDb.inner: the relations held by the handle's DbInstance
    instances,  \* the handles whose DbInstance is allocated
    dropped,    \* how many times each handle has been destroyed
    files,      \* backup artifacts on disk: <<>> or <<store>> per path
    snap,       \* history: the relations the source handle held when the
                \* artifact at a path was written
    last        \* the last call across the boundary and its outcome
vars == <<state, inner, instances, dropped, files, snap, last>>

\* ---------------------------------------------------------------- Engine
\* cozo::DbInstance, at its interface.
Call(fn, args, ok, ret) == [fn |-> fn, args |-> args, ok |-> ok, ret |-> ret]

ApplyRel(mode, old, new) ==
    IF mode = "merge" /\ old # <<>> /\ new # <<>>
    THEN <<old[1] \cup new[1]>> ELSE new

new_with_str(engine, path, options) ==
    IF engine = "mem" /\ options = "{}"
    THEN [ok |-> TRUE, store |-> EmptyStore]
    ELSE [ok |-> FALSE, store |-> EmptyStore]

IsMutating(script) == script[1] \in {"create", "rm", "put"}

run_script_str(store, script, params, immutable) ==
    LET n == script[2]
        fail(m) == [store |-> store, text |-> ErrText(m)]
    IN  IF script[1] = "garbage" THEN fail("parse")
        ELSE IF params # "{}" THEN fail("params")
        ELSE IF IsMutating(script) /\ immutable THEN fail("read-only")
        ELSE IF script[1] = "create"
        THEN IF store[n] # <<>> THEN fail("exists")
             ELSE [store |-> [store EXCEPT ![n] = <<{}>>], text |-> OkText(<<{}>>)]
        ELSE IF store[n] = <<>> THEN fail("missing")
        ELSE IF script[1] = "rm"
        THEN [store |-> [store EXCEPT ![n] = <<>>], text |-> OkText(<<{}>>)]
        ELSE IF script[1] = "put"
        THEN [store |-> [store EXCEPT ![n] = <<store[n][1] \cup {script[3]}>>],
              text |-> OkText(<<{}>>)]
        ELSE [store |-> store, text |-> OkText(store[n])]

IsStringArray(text) ==
    /\ text[1] = "arr"
    /\ \A i \in 1..Len(text[2]) : text[2][i][1] = "str"
StringsOf(text) == [i \in 1..Len(text[2]) |-> text[2][i][2]]
Range(seq) == {seq[i] : i \in 1..Len(seq)}

export_relations_str(store, relations_json) ==
    IF ~IsStringArray(relations_json) THEN ErrText("names")
    ELSE LET names == Range(StringsOf(relations_json))
         IN  IF \E n \in names : n \notin Names \/ store[n] = <<>>
             THEN ErrText("missing")
             ELSE RelSetText([n \in Names |-> IF n \in names THEN store[n] ELSE <<>>])

import_relations_str_with_err(store, data_json) ==
    IF data_json[1] # "relset" THEN [ok |-> FALSE, store |-> store]
    ELSE [ok |-> TRUE,
          store |-> [n \in Names |->
                       IF data_json[2][n] = <<>> THEN store[n]
                       ELSE data_json[2][n]]]

backup_db(store, fs, path) ==
    IF path \notin Paths THEN [ok |-> FALSE, files |-> fs]
    ELSE [ok |-> TRUE, files |-> [fs EXCEPT ![path] = <<store>>]]

HasArtifact(fs, path) == path \in Paths /\ fs[path] # <<>>

restore_backup(store, fs, path) ==
    IF ~HasArtifact(fs, path) THEN [ok |-> FALSE, store |-> store]
    ELSE [ok |-> TRUE, store |-> fs[path][1]]

import_from_backup(store, fs, path, relations, mode) ==
    IF \/ ~HasArtifact(fs, path)
       \/ \E n \in Range(relations) : n \notin Names \/ fs[path][1][n] = <<>>
    THEN [ok |-> FALSE, store |-> store]
    ELSE [ok |-> TRUE,
          store |-> [n \in Names |->
                       IF n \in Range(relations)
                       THEN ApplyRel(mode, store[n], fs[path][1][n])
                       ELSE store[n]]]

\* serde_json::from_str::<Vec<String>>
from_str(text) ==
    IF IsStringArray(text) THEN Ok(StringsOf(text)) ELSE Err("invalid type")

\* ------------------------------------------------------------ simple.rs
\* Every wrapper function is an operator from its arguments to an outcome:
\* the value returned to the caller, the relations of the handle and the
\* artifacts afterwards, and the engine calls made.
Outcome(result, store, fs, calls) ==
    [result |-> result, store |-> store, files |-> fs, calls |-> calls]

\* `db: &CozoDb`: a call needs a borrow of a live handle.
\* Mutant: the handle is used through a pointer that outlives the drop.
M_Borrow(h) == state[h] # "Unborn"


Borrow(h) == state[h] = "Open"

\* Mutant: a failed engine start still yields a handle.
M_cozo_open_db(engine, path, options) ==
    LET db == new_with_str(engine, path, options)
    IN  Outcome(Ok("CozoDb"), db.store, files,
                <<Call("new_with_str", <<engine, path, options>>, db.ok, Unit)>>)


cozo_open_db(engine, path, options) ==
    LET db == new_with_str(engine, path, options)
        calls == <<Call("new_with_str", <<engine, path, options>>, db.ok, Unit)>>
    IN  IF ~db.ok
        THEN Outcome(Err("Failed to open database"), EmptyStore, files, calls)
        ELSE Outcome(Ok("CozoDb"), db.store, files, calls)

\* Mutant: the flag is not forwarded.
M_cozo_run_query(store, script, params_json, immutable) ==
    LET r == run_script_str(store, script, params_json, FALSE)
    IN  Outcome(Ok(r.text), r.store, files,
                <<Call("run_script_str", <<script, params_json, FALSE>>,
                       r.text[1] # "error", r.text)>>)


cozo_run_query(store, script, params_json, immutable) ==
    LET r == run_script_str(store, script, params_json, immutable)
    IN  Outcome(Ok(r.text), r.store, files,
                <<Call("run_script_str", <<script, params_json, immutable>>,
                       r.text[1] # "error", r.text)>>)

\* Mutant: an engine failure is turned into a failure result.
M_cozo_export_relations(store, relations_json) ==
    LET text == export_relations_str(store, relations_json)
    IN  Outcome(IF text[1] = "error" THEN Err("Export failed") ELSE Ok(text),
                store, files,
                <<Call("export_relations_str", <<relations_json>>,
                       text[1] # "error", text)>>)


cozo_export_relations(store, relations_json) ==
    LET text == export_relations_str(store, relations_json)
    IN  Outcome(Ok(text), store, files,
                <<Call("export_relations_str", <<relations_json>>,
                       text[1] # "error", text)>>)

cozo_import_relations(store, data_json) ==
    LET r == import_relations_str_with_err(store, data_json)
    IN  Outcome(IF r.ok THEN Ok(Unit) ELSE Err("Import failed"), r.store, files,
                <<Call("import_relations_str_with_err", <<data_json>>, r.ok, Unit)>>)

cozo_backup(store, path) ==
    LET r == backup_db(store, files, path)
    IN  Outcome(IF r.ok THEN Ok(Unit) ELSE Err("Backup failed"), store, r.files,
                <<Call("backup_db", <<path>>, r.ok, Unit)>>)

\* Mutant: the engine's error is dropped.
M_cozo_restore_swallow(store, path) ==
    LET r == restore_backup(store, files, path)
    IN  Outcome(Ok(Unit), r.store, files,
                <<Call("restore_backup", <<path>>, r.ok, Unit)>>)

\* Mutant: the artifact is imported over the handle instead of replacing it.
M_cozo_restore_overlay(store, path) ==
    LET ok == HasArtifact(files, path)
        r == IF ok
             THEN import_relations_str_with_err(store, RelSetText(files[path][1]))
             ELSE [ok |-> FALSE, store |-> store]
    IN  Outcome(IF r.ok THEN Ok(Unit) ELSE Err("Restore failed"), r.store, files,
                <<Call("restore_backup", <<path>>, r.ok, Unit)>>)


cozo_restore(store, path) ==
    LET r == restore_backup(store, files, path)
    IN  Outcome(IF r.ok THEN Ok(Unit) ELSE Err("Restore failed"), r.store, files,
                <<Call("restore_backup", <<path>>, r.ok, Unit)>>)

\* Mutant: an undecodable payload is taken as the empty list.
M_cozo_import_from_backup_default(store, path, relations_json, mode) ==
    LET dec == from_str(relations_json)
        relations == IF dec.ok THEN dec.value ELSE <<>>
        r == import_from_backup(store, files, path, relations, mode)
    IN  Outcome(IF r.ok THEN Ok(Unit) ELSE Err("Import from backup failed"),
                r.store, files,
                <<Call("import_from_backup", <<path, relations>>, r.ok, Unit)>>)

\* Mutant: the names are decoded but the whole artifact is restored.
M_cozo_import_from_backup_all(store, path, relations_json, mode) ==
    LET relations == from_str(relations_json)
    IN  IF ~relations.ok
        THEN Outcome(Err("Invalid relations JSON"), store, files, <<>>)
        ELSE LET r == restore_backup(store, files, path)
             IN  Outcome(IF r.ok THEN Ok(Unit)
                         ELSE Err("Import from backup failed"),
                         r.store, files,
                         <<Call("import_from_backup", <<path, relations.value>>,
                                r.ok, Unit)>>)


cozo_import_from_backup(store, path, relations_json, mode) ==
    LET relations == from_str(relations_json)
    IN  IF ~relations.ok
        THEN Outcome(Err("Invalid relations JSON"), store, files, <<>>)
        ELSE LET r == import_from_backup(store, files, path, relations.value, mode)
             IN  Outcome(IF r.ok THEN Ok(Unit)
                         ELSE Err("Import from backup failed"),
                         r.store, files,
                         <<Call("import_from_backup", <<path, relations.value>>,
                                r.ok, Unit)>>)

\* ---------------------------------------------------------------- actions
Last(op, h, args, before, o) ==
    [op |-> op, h |-> h, args |-> args, before |-> before,
     calls |-> o.calls, result |-> o.result]
NoCall ==
    [op |-> "none", h |-> 0, args |-> <<>>, before |-> EmptyStore,
     calls |-> <<>>, result |-> Ok(Unit)]

\* Calls are synchronous: the caller issues one when it holds no pending
\* outcome, and takes the outcome before it issues the next.
Idle == last.op = "none"

\* The effect of a call on the handle h whose outcome is o.
Apply(op, h, args, o) ==
    /\ inner' = [inner EXCEPT ![h] = o.store]
    /\ files' = o.files
    /\ last' = Last(op, h, args, inner[h], o)

Init ==
    /\ state = [h \in Handles |-> "Unborn"]
    /\ inner = [h \in Handles |-> EmptyStore]
    /\ instances = {}
    /\ dropped = [h \in Handles |-> 0]
    /\ files = [p \in Paths |-> <<>>]
    /\ snap = [p \in Paths |-> <<>>]
    /\ last = NoCall

\* The next handle is the first one not yet created.
Open ==
    \E h \in Handles, engine \in EngineKinds, options \in OptionTexts :
        /\ Idle
        /\ state[h] = "Unborn"
        /\ \A g \in Handles : g < h => state[g] # "Unborn"
        /\ LET o == cozo_open_db(engine, "", options)
           IN  /\ IF o.result.ok
                  THEN /\ state' = [state EXCEPT ![h] = "Open"]
                       /\ instances' = instances \cup {h}
                       /\ inner' = [inner EXCEPT ![h] = o.store]
                  ELSE UNCHANGED <<state, instances, inner>>
               /\ last' = Last("open", IF o.result.ok THEN h ELSE 0,
                               <<engine, "", options>>, EmptyStore, o)
        /\ UNCHANGED <<dropped, files, snap>>

\* Drop of the opaque handle: the DbInstance is released with it.
Close ==
    \E h \in Handles :
        /\ Idle
        /\ Borrow(h)
        /\ state' = [state EXCEPT ![h] = "Closed"]
        /\ instances' = instances \ {h}
        /\ dropped' = [dropped EXCEPT ![h] = @ + 1]
        /\ inner' = [inner EXCEPT ![h] = EmptyStore]
        /\ last' = Last("close", h, <<>>, inner[h],
                        Outcome(Ok(Unit), EmptyStore, files, <<>>))
        /\ UNCHANGED <<files, snap>>

RunQuery ==
    \E h \in Handles, in \in RunInputs :
        /\ Idle
        /\ Borrow(h)
        /\ Apply("run_query", h, in,
                 cozo_run_query(inner[h], in[1], in[2], in[3]))
        /\ UNCHANGED <<state, instances, dropped, snap>>

ExportRelations ==
    \E h \in Handles, relations_json \in RelationsJsonInputs :
        /\ Idle
        /\ Borrow(h)
        /\ Apply("export_relations", h, <<relations_json>>,
                 cozo_export_relations(inner[h], relations_json))
        /\ UNCHANGED <<state, instances, dropped, snap>>

ImportRelations ==
    \E h \in Handles, data_json \in DataJsonInputs :
        /\ Idle
        /\ Borrow(h)
        /\ Apply("import_relations", h, <<data_json>>,
                 cozo_import_relations(inner[h], data_json))
        /\ UNCHANGED <<state, instances, dropped, snap>>

Backup ==
    \E h \in Handles, path \in PathInputs :
        /\ Idle
        /\ Borrow(h)
        /\ LET o == cozo_backup(inner[h], path)
           IN  /\ Apply("backup", h, <<path>>, o)
               /\ snap' = IF o.result.ok THEN [snap EXCEPT ![path] = <<inner[h]>>]
                          ELSE snap
        /\ UNCHANGED <<state, instances, dropped>>

Restore ==
    \E h \in Handles, path \in PathInputs :
        /\ Idle
        /\ Borrow(h)
        /\ Apply("restore", h, <<path>>, cozo_restore(inner[h], path))
        /\ UNCHANGED <<state, instances, dropped, snap>>

ImportFromBackup ==
    \E h \in Handles, in \in ImportFromBackupInputs, mode \in Modes :
        /\ Idle
        /\ Borrow(h)
        /\ Apply("import_from_backup", h, in,
                 cozo_import_from_backup(inner[h], in[1], in[2], mode))
        /\ UNCHANGED <<state, instances, dropped, snap>>

\* The caller takes the outcome of its call.
Return ==
    /\ ~Idle
    /\ last' = NoCall
    /\ UNCHANGED <<state, inner, instances, dropped, files, snap>>

Next ==
    \/ Open
    \/ Close
    \/ RunQuery
    \/ ExportRelations
    \/ ImportRelations
    \/ Backup
    \/ Restore
    \/ ImportFromBackup
    \/ Return

Spec == Init /\ [][Next]_vars

\* ---------------------------------------------------------------- claims
HandleOps == {"run_query", "export_relations", "import_relations", "backup",
              "restore", "import_from_backup"}
StringArrayTexts ==
    {JArr(<<>>)} \cup {JArr(<<JStr(a)>>) : a \in Names}
      \cup {JArr(<<JStr(a), JStr(b)>>) : a, b \in Names}
NamedIn(text) == IF text \in StringArrayTexts THEN Range(StringsOf(text)) ELSE {}
HasRows(s) == \E n \in Names : s[n] # <<>> /\ s[n][1] # {}

\* C1: importFromBackup with a relationNames payload that is not an array of
\* strings returns the decode failure, makes no engine call (the artifact is
\* not opened) and leaves the relations of the handle as they were.
DecodeBeforeEngine ==
    (last.op = "import_from_backup" /\ last.args[2] \notin StringArrayTexts) =>
        /\ ~last.result.ok
        /\ last.result.msg = "Invalid relations JSON"
        /\ last.calls = <<>>
        /\ inner[last.h] = last.before

\* A malformed payload met an artifact that an import could have read.
DecodeBeforeEngineWitness ==
    /\ last.op = "import_from_backup"
    /\ last.args[2] = JStr("not-an-array")
    /\ HasArtifact(files, last.args[1])
    /\ HasRows(files[last.args[1]][1])
    /\ ~last.result.ok

\* C2: no operation reaches the engine on a handle that is not open, a
\* closed handle has been destroyed exactly once and holds no engine
\* instance, and no handle is destroyed twice.
LifecycleExclusivity ==
    /\ \A h \in Handles : dropped[h] <= 1
    /\ \A h \in Handles :
        state[h] = "Closed" => dropped[h] = 1 /\ h \notin instances
    /\ last.op \in HandleOps =>
        state[last.h] = "Open" /\ last.h \in instances

\* An operation succeeded on a live handle while another handle is closed.
LifecycleExclusivityWitness ==
    /\ last.op \in HandleOps
    /\ last.result.ok
    /\ \E h \in Handles : state[h] = "Closed" /\ h # last.h

\* C3 as stated: when the engine cannot produce the export payload,
\* exportRelations returns a failure result.
ExportFailureIsError ==
    (last.op = "export_relations" /\ ~last.calls[1].ok) => ~last.result.ok

\* C3 amended: exportRelations always returns a payload, the text the engine
\* returned from its one call; when the engine cannot produce the export the
\* failure is inside that payload and the call still returns normally.
ExportFailureIsEmbedded ==
    last.op = "export_relations" =>
        /\ last.result.ok
        /\ Len(last.calls) = 1
        /\ last.calls[1].fn = "export_relations_str"
        /\ last.result.value = last.calls[1].ret
        /\ (~last.calls[1].ok => last.result.value[1] = "error")
        /\ inner[last.h] = last.before

\* An export of a relation that does not exist came back as a payload.
ExportFailureIsEmbeddedWitness ==
    /\ last.op = "export_relations"
    /\ last.args[1] = JArr(<<JStr("A")>>)
    /\ last.before["A"] = <<>>
    /\ ~last.calls[1].ok
    /\ last.result.ok

\* C4: a failed engine start makes open return a failure and changes neither
\* the handles nor the engine instances; a successful open adds exactly one
\* handle, in state Open, with its own engine instance.
OpenAllOrNothing ==
    [][last'.op = "open" =>
        /\ last'.result.ok <=> last'.calls[1].ok
        /\ IF last'.result.ok
           THEN \E h \in Handles :
                    /\ state[h] = "Unborn" /\ h \notin instances
                    /\ last'.h = h
                    /\ state' = [state EXCEPT ![h] = "Open"]
                    /\ instances' = instances \cup {h}
           ELSE state' = state /\ instances' = instances /\ inner' = inner]_vars

\* An open failed while another handle was live.
OpenAllOrNothingWitness ==
    /\ last.op = "open"
    /\ ~last.result.ok
    /\ last.args[1] = "bogus"
    /\ \E h \in Handles : state[h] = "Open"

\* C5: importRelations, backup, restore and importFromBackup call the engine
\* once (importFromBackup: once if the names decode) and return a failure
\* exactly when that call failed; an engine failure never becomes a success.
EngineFailureSurfaces ==
    last.op \in {"import_relations", "backup", "restore", "import_from_backup"} =>
        /\ Len(last.calls) <= 1
        /\ (last.op = "import_from_backup"
               => (Len(last.calls) = 1 <=> last.args[2] \in StringArrayTexts))
        /\ (last.op # "import_from_backup" => Len(last.calls) = 1)
        /\ \A i \in 1..Len(last.calls) : last.result.ok <=> last.calls[i].ok

\* The engine refused a restore and the caller got the failure.
EngineFailureSurfacesWitness ==
    /\ last.op = "restore"
    /\ Len(last.calls) = 1
    /\ ~last.calls[1].ok
    /\ ~last.result.ok

\* C7: importFromBackup leaves every relation that is not named as it was.
SelectiveImportScoping ==
    last.op = "import_from_backup" =>
        \A n \in Names \ NamedIn(last.args[2]) :
            inner[last.h][n] = last.before[n]

\* Only A was imported, and B is in the handle and in the artifact with
\* different content.
SelectiveImportScopingWitness ==
    /\ last.op = "import_from_backup"
    /\ last.result.ok
    /\ last.args[2] = JArr(<<JStr("A")>>)
    /\ inner[last.h]["A"] # last.before["A"]
    /\ inner[last.h]["B"] # <<>>
    /\ files[last.args[1]][1]["B"] # <<>>
    /\ files[last.args[1]][1]["B"] # inner[last.h]["B"]

\* C8: after a successful restore from the artifact that a successful backup
\* wrote from a handle with at least one non-empty relation, the handle holds
\* exactly the relations the source held at the backup.
BackupRestoreFidelity ==
    (last.op = "restore" /\ last.result.ok) =>
        /\ snap[last.args[1]] # <<>>
        /\ HasRows(snap[last.args[1]][1])
             => inner[last.h] = snap[last.args[1]][1]

\* The restore removed a relation the artifact does not hold, and another
\* handle no longer holds what was backed up.
BackupRestoreFidelityWitness ==
    /\ last.op = "restore"
    /\ last.result.ok
    /\ HasRows(snap[last.args[1]][1])
    /\ \E n \in Names : last.before[n] # <<>> /\ inner[last.h][n] = <<>>
    /\ \E h \in Handles \ {last.h} :
        state[h] = "Open" /\ inner[h] # snap[last.args[1]][1]

\* C9: runScript always returns the engine's payload and passes the caller's
\* readOnly flag to the engine; with readOnly a mutating script leaves the
\* relations unchanged and the payload reports a failure.
ReadOnlyEnforcement ==
    last.op = "run_query" =>
        /\ last.result.ok
        /\ Len(last.calls) = 1
        /\ last.calls[1].args = last.args
        /\ last.result.value = last.calls[1].ret
        /\ (last.args[3] /\ IsMutating(last.args[1])) =>
              /\ inner[last.h] = last.before
              /\ last.result.value[1] = "error"

\* A read-only put into an existing relation that does not hold the row.
ReadOnlyEnforcementWitness ==
    /\ last.op = "run_query"
    /\ last.args = <<(<<"put", "A", 1>>), "{}", TRUE>>
    /\ last.before["A"] = <<{}>>

====
